---- MODULE Spec2Model ----
(***************************************************************************)
(* La Reussite: a patience played with a Tarot deck.  The model follows    *)
(* the rule engine of src/app/page.tsx (the permissive variant) and of     *)
(* src/unnamed/part_000 (the strict variant, which adds drag and drop).    *)
(* Column, foundation and card positions are 0-based as in the source;     *)
(* TLA+ sequences are 1-based, so column ci is gs.columns[ci + 1].         *)
(***************************************************************************)
EXTENDS Integers, Sequences, FiniteSets, TLC

VARIABLES gs, variant, scale

vars == <<gs, variant, scale>>

(***************************************************************************)
(* Bounds.  The deck is scaled down: a game is played with the suits of    *)
(* PlayedSuits, of scale.suit cards each (the four suits of 14 cards in    *)
(* the source), and with scale.trump trumps (21 in the source), on NumCols *)
(* columns (11 in the source).  A game's scale is any one with at most     *)
(* MaxSuitValue cards a suit, MaxTrump trumps and MaxDeck cards in all; it *)
(* is fixed when the program starts.                                       *)
(***************************************************************************)
MaxSuitValue == 2

MaxTrump == 3

MaxDeck == 5

NumCols == 2

MaxMoves == 4

NumSeeds == 2

\* the highest card of a suit, the King: 14 in the source
KingValue == scale.suit

\* the suits dealt: one red and one black
PlayedSuits == {"hearts", "spades"}

\* the number of cards of a suit in the deck: 14 in the source
SuitSize(suit) == IF suit \in PlayedSuits THEN KingValue ELSE 0

\* the highest trump: 21 in the source
TopTrump == scale.trump

Min(a, b) == IF a < b THEN a ELSE b

Last(s) == s[Len(s)]

Reverse(s) == [i \in 1..Len(s) |-> s[Len(s) + 1 - i]]

RECURSIVE SumLen(_)
SumLen(ss) == IF ss = <<>> THEN 0 ELSE Len(Head(ss)) + SumLen(Tail(ss))

RECURSIVE Flatten(_)
Flatten(ss) == IF ss = <<>> THEN <<>> ELSE Head(ss) \o Flatten(Tail(ss))

(***************************************************************************)
(* Types and constants                                                     *)
(***************************************************************************)
SUITS == <<"hearts", "diamonds", "clubs", "spades">>

\* suit[0], the first letter of the suit's name
SuitLetter(suit) ==
  CASE suit = "hearts" -> "h"
    [] suit = "diamonds" -> "d"
    [] suit = "clubs" -> "c"
    [] suit = "spades" -> "s"

\* the sizes of the first NumCols columns of the deal
COL_SIZES == SubSeq(<<1, 2, 3, 4, 5, 6, 5, 4, 3, 2, 1>>, 1, NumCols)

\* null for a Card, a SelectedSource and a LastMove
NoCard == [id |-> <<"null", 0>>, kind |-> "null", suit |-> "null", value |-> 0, faceUp |-> FALSE]

NoSel == [from |-> "null", index |-> 0, cardIndex |-> 0]

NoMove == [type |-> "null", index |-> 0]

ColSel(ci, cardIdx) == [from |-> "col", index |-> ci, cardIndex |-> cardIdx]

ExcuseSel == [from |-> "excuse", index |-> 0, cardIndex |-> 0]

\* the id is the pair (prefix, number) that the template string joins
SuitCard(suit, v) ==
  [id |-> <<SuitLetter(suit), v>>, kind |-> "suit", suit |-> suit, value |-> v, faceUp |-> FALSE]

TrumpCard(v) ==
  [id |-> <<"t", v>>, kind |-> "trump", suit |-> "null", value |-> v, faceUp |-> FALSE]

ExcuseCard ==
  [id |-> <<"ex", 0>>, kind |-> "excuse", suit |-> "null", value |-> 0, faceUp |-> FALSE]

createDeck ==
  Flatten([k \in 1..Len(SUITS) |-> [v \in 1..SuitSize(SUITS[k]) |-> SuitCard(SUITS[k], v)]])
    \o [v \in 1..TopTrump |-> TrumpCard(v)]
    \o <<ExcuseCard>>

\* Math.random() of one shuffle, as the fraction seed / NumSeeds
RandomIndex(seed, i) == (seed * (i + 1)) \div NumSeeds

Swap(a, i, j) == [a EXCEPT ![i + 1] = a[j + 1], ![j + 1] = a[i + 1]]

RECURSIVE shuffleFrom(_, _, _)
shuffleFrom(a, i, seed) ==
  IF i > 0 THEN shuffleFrom(Swap(a, i, RandomIndex(seed, i)), i - 1, seed) ELSE a

shuffle(arr, seed) == shuffleFrom(arr, Len(arr) - 1, seed)

isRed(c) == c.suit = "hearts" \/ c.suit = "diamonds"


(***************************************************************************)
(* Game state: foundations 0..3 are the suits, 4 the ascending trumps,     *)
(* 5 the descending trumps                                                 *)
(***************************************************************************)
\* deck.slice(from, to)
Slice(a, from, to) == SubSeq(a, from + 1, Min(to, Len(a)))

\* idx at the start of the k-th iteration of the deal (k is 1-based)
DealOffset(k) == SumLen([i \in 1..(k - 1) |-> [j \in 1..COL_SIZES[i] |-> 0]])

\* DealColumn that turns up the first card of the column
DealColumnFirstUp(cards) == [i \in 1..Len(cards) |-> [cards[i] EXCEPT !.faceUp = (i = 1)]]

DealColumn(cards) == [i \in 1..Len(cards) |-> [cards[i] EXCEPT !.faceUp = (i = Len(cards))]]

newGameState(seed) ==
  LET deck == shuffle(createDeck, seed)
  IN  [columns |-> [k \in 1..NumCols |->
                      DealColumn(Slice(deck, DealOffset(k), DealOffset(k) + COL_SIZES[k]))],
       foundations |-> [f \in 1..6 |-> <<>>],
       excuseSlot |-> NoCard,
       stock |-> Slice(deck, DealOffset(NumCols + 1), Len(deck)),
       selected |-> NoSel,
       gameOver |-> FALSE,
       moves |-> 0,
       lastMove |-> NoMove,
       trumpsMerged |-> FALSE]

(***************************************************************************)
(* Placement rules                                                         *)
(***************************************************************************)
\* canPlaceOnColumn without the test of the colours
canPlaceOnColumnAnyColour(card, col) ==
  IF card.kind = "excuse" THEN TRUE
  ELSE IF Len(col) = 0 THEN TRUE
  ELSE LET top == Last(col)
       IN  IF top.kind = "excuse" THEN TRUE
           ELSE IF card.kind = "trump"
                THEN top.kind = "trump" /\ card.value = top.value - 1
           ELSE IF top.kind = "suit"
                THEN card.value = top.value - 1
           ELSE FALSE

canPlaceOnColumn(card, col) ==
  IF card.kind = "excuse" THEN TRUE
  ELSE IF Len(col) = 0 THEN TRUE
  ELSE LET top == Last(col)
       IN  IF top.kind = "excuse" THEN TRUE
           ELSE IF card.kind = "trump"
                THEN top.kind = "trump" /\ card.value = top.value - 1
           ELSE IF top.kind = "suit"
                THEN isRed(card) # isRed(top) /\ card.value = top.value - 1
           ELSE FALSE

\* canPlaceOnColumnStrict with an empty column that takes any suit card
canPlaceOnColumnStrictAnySuitCard(card, col) ==
  IF card.kind = "excuse" THEN Len(col) > 0
  ELSE IF Len(col) = 0 THEN card.kind = "suit"
  ELSE LET top == Last(col)
       IN  IF top.kind = "excuse" THEN TRUE
           ELSE IF card.kind = "trump"
                THEN top.kind = "trump" /\ card.value = top.value - 1
           ELSE IF top.kind = "suit"
                THEN isRed(card) # isRed(top) /\ card.value = top.value - 1
           ELSE FALSE

\* the strict variant: an empty column takes a King only, the Excuse never starts a column
canPlaceOnColumnStrict(card, col) ==
  IF card.kind = "excuse" THEN Len(col) > 0
  ELSE IF Len(col) = 0 THEN card.kind = "suit" /\ card.value = KingValue
  ELSE LET top == Last(col)
       IN  IF top.kind = "excuse" THEN TRUE
           ELSE IF card.kind = "trump"
                THEN top.kind = "trump" /\ card.value = top.value - 1
           ELSE IF top.kind = "suit"
                THEN isRed(card) # isRed(top) /\ card.value = top.value - 1
           ELSE FALSE

\* each variant's handlers call the canPlaceOnColumn of their own file
placeOnColumn(v, card, col) ==
  IF v = "strict" THEN canPlaceOnColumnStrict(card, col) ELSE canPlaceOnColumn(card, col)

\* canPlaceOnFoundation without the test of the card's kind on foundation 4
canPlaceOnFoundationAnyKind(card, fi, allFdns, merged) ==
  LET fdn == allFdns[fi + 1]
  IN  IF fi < 4
      THEN IF card.kind # "suit" \/ card.suit # SUITS[fi + 1] THEN FALSE
           ELSE IF Len(fdn) = 0 THEN card.value = 1 ELSE card.value = Last(fdn).value + 1
      ELSE IF fi = 4
      THEN IF merged THEN FALSE
           ELSE IF Len(fdn) = 0 THEN card.value = 1
           ELSE card.value = Last(fdn).value + 1
      ELSE IF fi = 5
      THEN IF card.kind # "trump" THEN FALSE
           ELSE IF merged THEN FALSE
           ELSE IF Len(fdn) = 0 THEN card.value = TopTrump
           ELSE card.value = Last(fdn).value - 1
      ELSE FALSE

\* canPlaceOnFoundation without the test of the merged flag
canPlaceOnFoundationAfterMerge(card, fi, allFdns, merged) ==
  LET fdn == allFdns[fi + 1]
  IN  IF fi < 4
      THEN IF card.kind # "suit" \/ card.suit # SUITS[fi + 1] THEN FALSE
           ELSE IF Len(fdn) = 0 THEN card.value = 1 ELSE card.value = Last(fdn).value + 1
      ELSE IF fi = 4
      THEN IF card.kind # "trump" THEN FALSE
           ELSE IF Len(fdn) = 0 THEN card.value = 1
           ELSE card.value = Last(fdn).value + 1
      ELSE IF fi = 5
      THEN IF card.kind # "trump" THEN FALSE
           ELSE IF Len(fdn) = 0 THEN card.value = TopTrump
           ELSE card.value = Last(fdn).value - 1
      ELSE FALSE

\* canPlaceOnFoundation without the test of the card's suit
canPlaceOnFoundationAnySuit(card, fi, allFdns, merged) ==
  LET fdn == allFdns[fi + 1]
  IN  IF fi < 4
      THEN IF card.kind # "suit" THEN FALSE
           ELSE IF Len(fdn) = 0 THEN card.value = 1 ELSE card.value = Last(fdn).value + 1
      ELSE IF fi = 4 \/ fi = 5
      THEN IF card.kind # "trump" THEN FALSE
           ELSE IF merged THEN FALSE
           ELSE IF Len(fdn) = 0 THEN card.value = (IF fi = 4 THEN 1 ELSE TopTrump)
           ELSE card.value = Last(fdn).value + (IF fi = 4 THEN 1 ELSE -1)
      ELSE FALSE

\* canPlaceOnFoundation with the descending pile taking any lower trump
canPlaceOnFoundationAnyLower(card, fi, allFdns, merged) ==
  LET fdn == allFdns[fi + 1]
  IN  IF fi < 4
      THEN IF card.kind # "suit" \/ card.suit # SUITS[fi + 1] THEN FALSE
           ELSE IF Len(fdn) = 0 THEN card.value = 1 ELSE card.value = Last(fdn).value + 1
      ELSE IF fi = 4
      THEN IF card.kind # "trump" THEN FALSE
           ELSE IF merged THEN FALSE
           ELSE IF Len(fdn) = 0 THEN card.value = 1
           ELSE card.value = Last(fdn).value + 1
      ELSE IF fi = 5
      THEN IF card.kind # "trump" THEN FALSE
           ELSE IF merged THEN FALSE
           ELSE IF Len(fdn) = 0 THEN card.value = TopTrump
           ELSE card.value < Last(fdn).value
      ELSE FALSE

canPlaceOnFoundation(card, fi, allFdns, merged) ==
  LET fdn == allFdns[fi + 1]
  IN  IF fi < 4
      THEN IF card.kind # "suit" \/ card.suit # SUITS[fi + 1] THEN FALSE
           ELSE IF Len(fdn) = 0 THEN card.value = 1 ELSE card.value = Last(fdn).value + 1
      ELSE IF fi = 4
      THEN IF card.kind # "trump" THEN FALSE
           ELSE IF merged THEN FALSE
           ELSE IF Len(fdn) = 0 THEN card.value = 1
           ELSE card.value = Last(fdn).value + 1
      ELSE IF fi = 5
      THEN IF card.kind # "trump" THEN FALSE
           ELSE IF merged THEN FALSE
           ELSE IF Len(fdn) = 0 THEN card.value = TopTrump
           ELSE card.value = Last(fdn).value - 1
      ELSE FALSE

RECURSIVE findFoundationFrom(_, _, _, _)
findFoundationFrom(i, card, fdns, merged) ==
  IF i < 6
  THEN IF canPlaceOnFoundation(card, i, fdns, merged) THEN i
       ELSE findFoundationFrom(i + 1, card, fdns, merged)
  ELSE -1

\* findFoundation that scans the indices from 5 down to 0
findFoundationDownwards(card, fdns, merged) ==
  LET accepting == {i \in 0..5 : canPlaceOnFoundation(card, i, fdns, merged)}
  IN  IF accepting = {} THEN -1
      ELSE CHOOSE i \in accepting : \A j \in accepting : j <= i

findFoundation(card, fdns, merged) == findFoundationFrom(0, card, fdns, merged)

\* canMergeTrumps that asks for the two tops to be two apart
canMergeTrumpsOverGap(s) ==
  IF s.trumpsMerged THEN FALSE
  ELSE LET asc == s.foundations[5]
           desc == s.foundations[6]
       IN  IF Len(asc) = 0 \/ Len(desc) = 0 THEN FALSE
           ELSE Last(asc).value + 2 = Last(desc).value

canMergeTrumps(s) ==
  IF s.trumpsMerged THEN FALSE
  ELSE LET asc == s.foundations[5]
           desc == s.foundations[6]
       IN  IF Len(asc) = 0 \/ Len(desc) = 0 THEN FALSE
           ELSE Last(asc).value + 1 = Last(desc).value

\* countAllPlaced that leaves the Excuse slot out
countAllPlacedOnFoundations(s) == SumLen(s.foundations)

countAllPlaced(s) == SumLen(s.foundations) + (IF s.excuseSlot # NoCard THEN 1 ELSE 0)

\* isWin that asks for the merged run of trumps on foundation 4
isWinMerged(s) ==
  LET suitsDone == /\ Len(s.foundations[1]) = SuitSize(SUITS[1])
                   /\ Len(s.foundations[2]) = SuitSize(SUITS[2])
                   /\ Len(s.foundations[3]) = SuitSize(SUITS[3])
                   /\ Len(s.foundations[4]) = SuitSize(SUITS[4])
      trumpsDone == s.trumpsMerged /\ Len(s.foundations[5]) = TopTrump
      excuseDone == s.excuseSlot # NoCard
  IN  suitsDone /\ trumpsDone /\ excuseDone

isWin(s) ==
  LET suitsDone == /\ Len(s.foundations[1]) = SuitSize(SUITS[1])
                   /\ Len(s.foundations[2]) = SuitSize(SUITS[2])
                   /\ Len(s.foundations[3]) = SuitSize(SUITS[3])
                   /\ Len(s.foundations[4]) = SuitSize(SUITS[4])
      trumpsDone == Len(s.foundations[5]) + Len(s.foundations[6]) = TopTrump
      excuseDone == s.excuseSlot # NoCard
  IN  suitsDone /\ trumpsDone /\ excuseDone

\* checkWin that ends the game whether it is won or not
checkWinAlways(s) == [s EXCEPT !.gameOver = TRUE]

\* if (isWin(s)) s.gameOver = true
checkWin(s) == IF isWin(s) THEN [s EXCEPT !.gameOver = TRUE] ELSE s

\* hasKingOnTop that takes every face-up top card for a King
hasKingOnTopAnyCard(col) ==
  IF Len(col) = 0 THEN FALSE
  ELSE LET top == Last(col)
       IN  top.faceUp

hasKingOnTop(col) ==
  IF Len(col) = 0 THEN FALSE
  ELSE LET top == Last(col)
       IN  top.faceUp /\ top.kind = "suit" /\ top.value = KingValue

(***************************************************************************)
(* State helpers                                                           *)
(***************************************************************************)
\* revealBottom that leaves the uncovered card face-down
revealBottomNever(col) == col

revealBottom(col) ==
  IF Len(col) > 0 /\ ~Last(col).faceUp
  THEN [col EXCEPT ![Len(col)].faceUp = TRUE]
  ELSE col

getSelectedCard(s) ==
  IF s.selected = NoSel THEN NoCard
  ELSE IF s.selected.from = "excuse" THEN s.excuseSlot
  ELSE LET col == s.columns[s.selected.index + 1]
           ci == s.selected.cardIndex
       IN  IF ci < Len(col) THEN col[ci + 1] ELSE NoCard

\* removeSelectedCards: the cards it returns ...
removedCards(s) ==
  IF s.selected = NoSel THEN <<>>
  ELSE IF s.selected.from = "excuse"
       THEN IF s.excuseSlot # NoCard THEN <<s.excuseSlot>> ELSE <<>>
  ELSE LET col == s.columns[s.selected.index + 1]
       IN  SubSeq(col, Min(s.selected.cardIndex, Len(col)) + 1, Len(col))

\* removeSelectedCards that leaves the Excuse in its slot
removeSelectedCardsKeepsSlot(s) ==
  IF s.selected = NoSel THEN s
  ELSE IF s.selected.from = "excuse" THEN s
  ELSE LET i == s.selected.index + 1
           col == s.columns[i]
       IN  [s EXCEPT !.columns[i] =
              revealBottom(SubSeq(col, 1, Min(s.selected.cardIndex, Len(col))))]

\* removeSelectedCards that does not call revealBottom
removeSelectedCardsUnrevealed(s) ==
  IF s.selected = NoSel THEN s
  ELSE IF s.selected.from = "excuse" THEN [s EXCEPT !.excuseSlot = NoCard]
  ELSE LET i == s.selected.index + 1
           col == s.columns[i]
       IN  [s EXCEPT !.columns[i] = SubSeq(col, 1, Min(s.selected.cardIndex, Len(col)))]

\* ... and the state it leaves: col.splice(cardIndex), then revealBottom(col)
removeSelectedCards(s) ==
  IF s.selected = NoSel THEN s
  ELSE IF s.selected.from = "excuse" THEN [s EXCEPT !.excuseSlot = NoCard]
  ELSE LET i == s.selected.index + 1
           col == s.columns[i]
       IN  [s EXCEPT !.columns[i] =
              revealBottom(SubSeq(col, 1, Min(s.selected.cardIndex, Len(col))))]

(***************************************************************************)
(* Handlers: each is the function handed to setGs, from the previous state *)
(* to the next one                                                         *)
(***************************************************************************)
\* the columns the deal may reach, in index order (0-based)
\* eligibleColumns that takes every column, a King on top or not
eligibleColumnsAll(v, s) == [i \in 1..NumCols |-> i - 1]

eligibleColumns(v, s) ==
  SelectSeq([i \in 1..NumCols |-> i - 1],
            LAMBDA i : v # "strict" \/ ~hasKingOnTop(s.columns[i + 1]))

\* distribute that waits for the end of the animation of the last move
distributeAfterAnimation(v, prev) ==
  IF prev.gameOver \/ Len(prev.stock) = 0 \/ prev.lastMove # NoMove THEN prev
  ELSE LET eligible == eligibleColumns(v, prev)
           count == Min(Len(prev.stock), Len(eligible))
           popped(i) == [prev.stock[Len(prev.stock) - i] EXCEPT !.faceUp = TRUE]
           rank(ci) == CHOOSE i \in 1..Len(eligible) : eligible[i] = ci
       IN  [prev EXCEPT
              !.columns = [k \in 1..NumCols |->
                             IF \E i \in 1..count : eligible[i] = k - 1
                             THEN Append(prev.columns[k], popped(rank(k - 1) - 1))
                             ELSE prev.columns[k]],
              !.stock = SubSeq(prev.stock, 1, Len(prev.stock) - count),
              !.selected = NoSel,
              !.lastMove = [type |-> "distribute", index |-> 0]]

distribute(v, prev) ==
  IF prev.gameOver \/ Len(prev.stock) = 0 THEN prev
  ELSE LET eligible == eligibleColumns(v, prev)
           count == Min(Len(prev.stock), Len(eligible))
           \* the i-th pop (0-based) takes stock[length - 1 - i]
           popped(i) == [prev.stock[Len(prev.stock) - i] EXCEPT !.faceUp = TRUE]
           rank(ci) == CHOOSE i \in 1..Len(eligible) : eligible[i] = ci
       IN  [prev EXCEPT
              !.columns = [k \in 1..NumCols |->
                             IF \E i \in 1..count : eligible[i] = k - 1
                             THEN Append(prev.columns[k], popped(rank(k - 1) - 1))
                             ELSE prev.columns[k]],
              !.stock = SubSeq(prev.stock, 1, Len(prev.stock) - count),
              !.selected = NoSel,
              !.lastMove = [type |-> "distribute", index |-> 0]]

\* moveRunToColumn that lays the run face-down on the column
moveRunToColumnFaceDown(s, ci) ==
  LET moved == removedCards(s)
      s1 == removeSelectedCards(s)
  IN  [s1 EXCEPT !.columns[ci + 1] = @ \o [i \in 1..Len(moved) |-> [moved[i] EXCEPT !.faceUp = FALSE]],
                 !.selected = NoSel,
                 !.moves = @ + 1,
                 !.lastMove = [type |-> "col", index |-> ci]]

\* moveRunToColumn that does not count the move
moveRunToColumnUncounted(s, ci) ==
  LET moved == removedCards(s)
      s1 == removeSelectedCards(s)
  IN  [s1 EXCEPT !.columns[ci + 1] = @ \o moved,
                 !.selected = NoSel,
                 !.lastMove = [type |-> "col", index |-> ci]]

\* the accepted move of the selected sub-sequence onto column ci
moveRunToColumn(s, ci) ==
  LET moved == removedCards(s)
      s1 == removeSelectedCards(s)
  IN  [s1 EXCEPT !.columns[ci + 1] = @ \o moved,
                 !.selected = NoSel,
                 !.moves = @ + 1,
                 !.lastMove = [type |-> "col", index |-> ci]]

isFaceUpAt(col, cardIdx) == cardIdx < Len(col) /\ col[cardIdx + 1].faceUp

\* clickCard that selects, with nothing selected, a face-down card as well
clickCardSelectsFaceDown(v, prev, ci, cardIdx) ==
  IF prev.gameOver THEN prev
  ELSE LET col == prev.columns[ci + 1]
           sel == prev.selected
           select == [prev EXCEPT !.selected = ColSel(ci, cardIdx), !.lastMove = NoMove]
           deselect == [prev EXCEPT !.selected = NoSel, !.lastMove = NoMove]
       IN  IF sel # NoSel
           THEN IF sel.from = "col" /\ sel.index = ci /\ sel.cardIndex = cardIdx
                THEN deselect
                ELSE IF sel.from = "col" /\ sel.index = ci
                THEN IF isFaceUpAt(col, cardIdx) THEN select ELSE deselect
                ELSE LET card == getSelectedCard(prev)
                     IN  IF card # NoCard /\ placeOnColumn(v, card, col)
                         THEN moveRunToColumn(prev, ci)
                         ELSE IF isFaceUpAt(col, cardIdx) THEN select ELSE deselect
           ELSE select

\* clickCard that keeps the selection when its head card is clicked again
clickCardKeepsOnReclick(v, prev, ci, cardIdx) ==
  IF prev.gameOver THEN prev
  ELSE LET col == prev.columns[ci + 1]
           sel == prev.selected
           select == [prev EXCEPT !.selected = ColSel(ci, cardIdx), !.lastMove = NoMove]
           deselect == [prev EXCEPT !.selected = NoSel, !.lastMove = NoMove]
       IN  IF sel # NoSel
           THEN IF sel.from = "col" /\ sel.index = ci
                THEN IF isFaceUpAt(col, cardIdx) THEN select ELSE deselect
                ELSE LET card == getSelectedCard(prev)
                     IN  IF card # NoCard /\ placeOnColumn(v, card, col)
                         THEN moveRunToColumn(prev, ci)
                         ELSE IF isFaceUpAt(col, cardIdx) THEN select ELSE deselect
           ELSE IF ~isFaceUpAt(col, cardIdx) THEN prev ELSE select

clickCard(v, prev, ci, cardIdx) ==
  IF prev.gameOver THEN prev
  ELSE LET col == prev.columns[ci + 1]
           sel == prev.selected
           select == [prev EXCEPT !.selected = ColSel(ci, cardIdx), !.lastMove = NoMove]
           deselect == [prev EXCEPT !.selected = NoSel, !.lastMove = NoMove]
       IN  IF sel # NoSel
           THEN IF sel.from = "col" /\ sel.index = ci /\ sel.cardIndex = cardIdx
                THEN deselect
                ELSE IF sel.from = "col" /\ sel.index = ci
                THEN IF isFaceUpAt(col, cardIdx) THEN select ELSE deselect
                ELSE LET card == getSelectedCard(prev)
                     IN  IF card # NoCard /\ placeOnColumn(v, card, col)
                         THEN moveRunToColumn(prev, ci)
                         ELSE IF isFaceUpAt(col, cardIdx) THEN select ELSE deselect
           ELSE IF ~isFaceUpAt(col, cardIdx) THEN prev ELSE select

clickColumn(v, prev, ci) ==
  IF prev.gameOver THEN prev
  ELSE LET col == prev.columns[ci + 1]
       IN  IF prev.selected # NoSel /\ Len(col) = 0
           THEN LET card == getSelectedCard(prev)
                IN  IF card # NoCard /\ placeOnColumn(v, card, col)
                    THEN moveRunToColumn(prev, ci)
                    ELSE [prev EXCEPT !.selected = NoSel, !.lastMove = NoMove]
           ELSE prev

\* isSubSeq that takes every selection for a single card
isSubSeqNever(s) == FALSE

isSubSeq(s) ==
  /\ s.selected.from = "col"
  /\ s.selected.cardIndex < Len(s.columns[s.selected.index + 1]) - 1

\* moveCardToFoundation that puts the card in place of the pile
moveCardToFoundationReplacing(s, fi) ==
  LET card == getSelectedCard(s)
      s1 == removeSelectedCards(s)
  IN  checkWin([s1 EXCEPT !.foundations[fi + 1] = <<card>>,
                          !.selected = NoSel,
                          !.moves = @ + 1,
                          !.lastMove = [type |-> "fdn", index |-> fi]])

\* the accepted move of the selected card onto foundation fi
moveCardToFoundation(s, fi) ==
  LET card == getSelectedCard(s)
      s1 == removeSelectedCards(s)
  IN  checkWin([s1 EXCEPT !.foundations[fi + 1] = Append(@, card),
                          !.selected = NoSel,
                          !.moves = @ + 1,
                          !.lastMove = [type |-> "fdn", index |-> fi]])

\* clickFoundation that keeps the selection when the foundation refuses it
clickFoundationKeepsSelection(prev, fi) ==
  IF prev.gameOver \/ prev.selected = NoSel THEN prev
  ELSE LET card == getSelectedCard(prev)
       IN  IF \/ card = NoCard
              \/ isSubSeq(prev)
              \/ ~canPlaceOnFoundation(card, fi, prev.foundations, prev.trumpsMerged)
           THEN prev
           ELSE moveCardToFoundation(prev, fi)

clickFoundation(prev, fi) ==
  IF prev.gameOver \/ prev.selected = NoSel THEN prev
  ELSE LET card == getSelectedCard(prev)
       IN  IF \/ card = NoCard
              \/ isSubSeq(prev)
              \/ ~canPlaceOnFoundation(card, fi, prev.foundations, prev.trumpsMerged)
           THEN [prev EXCEPT !.selected = NoSel]
           ELSE moveCardToFoundation(prev, fi)

\* storeSelectedExcuse that leaves the selection in place
storeSelectedExcuseKeepsSelection(s) ==
  LET card == getSelectedCard(s)
      s1 == removeSelectedCards(s)
  IN  [s1 EXCEPT !.excuseSlot = [card EXCEPT !.faceUp = TRUE],
                 !.moves = @ + 1,
                 !.lastMove = [type |-> "excuse", index |-> 0]]

\* the accepted store of the selected card in the Excuse slot
storeSelectedExcuse(s) ==
  LET card == getSelectedCard(s)
      s1 == removeSelectedCards(s)
  IN  [s1 EXCEPT !.excuseSlot = [card EXCEPT !.faceUp = TRUE],
                 !.selected = NoSel,
                 !.moves = @ + 1,
                 !.lastMove = [type |-> "excuse", index |-> 0]]

\* clickExcuseSlot that stores whatever card is selected
clickExcuseSlotAnyCard(prev) ==
  IF prev.gameOver THEN prev
  ELSE IF prev.selected # NoSel
  THEN IF prev.selected.from = "excuse" THEN [prev EXCEPT !.selected = NoSel]
       ELSE LET card == getSelectedCard(prev)
            IN  IF card # NoCard /\ prev.excuseSlot = NoCard
                THEN storeSelectedExcuse(prev)
                ELSE [prev EXCEPT !.selected = NoSel]
  ELSE IF prev.excuseSlot # NoCard
  THEN [prev EXCEPT !.selected = ExcuseSel, !.lastMove = NoMove]
  ELSE prev

clickExcuseSlot(prev) ==
  IF prev.gameOver THEN prev
  ELSE IF prev.selected # NoSel
  THEN IF prev.selected.from = "excuse" THEN [prev EXCEPT !.selected = NoSel]
       ELSE LET card == getSelectedCard(prev)
            IN  IF card # NoCard /\ card.kind = "excuse" /\ prev.excuseSlot = NoCard
                THEN storeSelectedExcuse(prev)
                ELSE [prev EXCEPT !.selected = NoSel]
  ELSE IF prev.excuseSlot # NoCard
  THEN [prev EXCEPT !.selected = ExcuseSel, !.lastMove = NoMove]
  ELSE prev

\* the merge itself: the descending pile goes onto the ascending one in the
\* order given
mergeWith(prev, desc) ==
  checkWin([prev EXCEPT !.foundations[5] = @ \o desc,
                        !.foundations[6] = <<>>,
                        !.trumpsMerged = TRUE,
                        !.moves = @ + 1,
                        !.lastMove = [type |-> "fdn", index |-> 4]])

\* mergeTrumps without the test of gameOver
mergeTrumpsAfterWin(prev) ==
  IF ~canMergeTrumps(prev) THEN prev
  ELSE mergeWith(prev, Reverse(prev.foundations[6]))

\* mergeTrumps that does not record that the piles are merged
mergeTrumpsUnrecorded(prev) ==
  IF prev.gameOver \/ ~canMergeTrumps(prev) THEN prev
  ELSE [mergeWith(prev, Reverse(prev.foundations[6])) EXCEPT !.trumpsMerged = FALSE]

\* mergeTrumps that does not reverse the descending pile
mergeTrumpsUnreversed(prev) ==
  IF prev.gameOver \/ ~canMergeTrumps(prev) THEN prev
  ELSE mergeWith(prev, prev.foundations[6])

mergeTrumps(prev) ==
  IF prev.gameOver \/ ~canMergeTrumps(prev) THEN prev
  ELSE mergeWith(prev, Reverse(prev.foundations[6]))

\* col.pop(); revealBottom(col)
popColumn(s, ci) ==
  [s EXCEPT !.columns[ci + 1] = revealBottom(SubSeq(@, 1, Len(@) - 1))]

\* autoPlace that leaves the selection in place
autoPlaceKeepsSelection(prev, ci) ==
  IF prev.gameOver THEN prev
  ELSE LET col == prev.columns[ci + 1]
           card == IF Len(col) > 0 THEN Last(col) ELSE NoCard
       IN  IF card = NoCard THEN prev
           ELSE IF card.kind = "excuse" /\ prev.excuseSlot = NoCard
           THEN [popColumn(prev, ci) EXCEPT
                   !.excuseSlot = [card EXCEPT !.faceUp = TRUE],
                   !.moves = @ + 1,
                   !.lastMove = [type |-> "excuse", index |-> 0]]
           ELSE LET fi == findFoundation(card, prev.foundations, prev.trumpsMerged)
                IN  IF fi = -1 THEN prev
                    ELSE checkWin([popColumn(prev, ci) EXCEPT
                                     !.foundations[fi + 1] = Append(@, card),
                                     !.moves = @ + 1,
                                     !.lastMove = [type |-> "fdn", index |-> fi]])

autoPlace(prev, ci) ==
  IF prev.gameOver THEN prev
  ELSE LET col == prev.columns[ci + 1]
           card == IF Len(col) > 0 THEN Last(col) ELSE NoCard
       IN  IF card = NoCard THEN prev
           ELSE IF card.kind = "excuse" /\ prev.excuseSlot = NoCard
           THEN [popColumn(prev, ci) EXCEPT
                   !.excuseSlot = [card EXCEPT !.faceUp = TRUE],
                   !.selected = NoSel,
                   !.moves = @ + 1,
                   !.lastMove = [type |-> "excuse", index |-> 0]]
           ELSE LET fi == findFoundation(card, prev.foundations, prev.trumpsMerged)
                IN  IF fi = -1 THEN prev
                    ELSE checkWin([popColumn(prev, ci) EXCEPT
                                     !.foundations[fi + 1] = Append(@, card),
                                     !.selected = NoSel,
                                     !.moves = @ + 1,
                                     !.lastMove = [type |-> "fdn", index |-> fi]])

\* the click on the background: deselect
clickBackground(prev) == [prev EXCEPT !.selected = NoSel, !.lastMove = NoMove]

\* the lastMove timer's callback
clearLastMove(prev) == [prev EXCEPT !.lastMove = NoMove]

(***************************************************************************)
(* Drag and drop (strict variant): the drop takes the source of the drag   *)
(* as the selection and has no gameOver guard of its own                   *)
(***************************************************************************)
dropOnColumn(prev, from, ci) ==
  LET s == [prev EXCEPT !.selected = from]
      card == getSelectedCard(s)
  IN  IF card # NoCard /\ canPlaceOnColumnStrict(card, s.columns[ci + 1])
      THEN moveRunToColumn(s, ci)
      ELSE [s EXCEPT !.selected = NoSel]

dropOnFoundation(prev, from, fi) ==
  LET s == [prev EXCEPT !.selected = from]
      card == getSelectedCard(s)
  IN  IF \/ card = NoCard
         \/ isSubSeq(s)
         \/ ~canPlaceOnFoundation(card, fi, s.foundations, s.trumpsMerged)
      THEN [s EXCEPT !.selected = NoSel]
      ELSE moveCardToFoundation(s, fi)

dropOnExcuse(prev, from) ==
  LET s == [prev EXCEPT !.selected = from]
      card == getSelectedCard(s)
  IN  IF card # NoCard /\ card.kind = "excuse" /\ s.excuseSlot = NoCard
      THEN storeSelectedExcuse(s)
      ELSE [s EXCEPT !.selected = NoSel]

(***************************************************************************)
(* The state machine.  gs is the GameState held by the Page component,     *)
(* variant tells which of the two programs runs and scale the size of its  *)
(* deck.  The user's gestures come one at a time: a drag (pointer down on  *)
(* a card, move, pointer up over a target) is one step.                    *)
(***************************************************************************)
Seeds == 0..(NumSeeds - 1)

Variants == {"permissive", "strict"}

\* the deck of a scale holds the cards of the deal and no more than MaxDeck cards
Scales ==
  {sc \in [suit : 0..MaxSuitValue, trump : 0..MaxTrump] :
     LET size == Cardinality(PlayedSuits) * sc.suit + sc.trump + 1
     IN  DealOffset(NumCols + 1) <= size /\ size <= MaxDeck}

ColumnIndices == 0..(NumCols - 1)

FoundationIndices == 0..5

piles(s) == <<s.columns, s.foundations, s.excuseSlot, s.stock>>

\* gs becomes new; a handler that returns the state it was given is no step
Apply(new) ==
  /\ new # gs
  /\ new.moves <= MaxMoves
  /\ gs' = new
  /\ UNCHANGED <<variant, scale>>

Init ==
  /\ variant \in Variants
  /\ scale \in Scales
  /\ \E seed \in Seeds : gs = newGameState(seed)

Restart ==
  /\ \E seed \in Seeds : gs' = newGameState(seed)
  /\ UNCHANGED <<variant, scale>>

Distribute == Apply(distribute(variant, gs))

ClickCard ==
  \E ci \in ColumnIndices :
    \E cardIdx \in 0..(Len(gs.columns[ci + 1]) - 1) :
      Apply(clickCard(variant, gs, ci, cardIdx))

ClickColumn == \E ci \in ColumnIndices : Apply(clickColumn(variant, gs, ci))

ClickFoundation ==
  \E fi \in FoundationIndices : Apply(clickFoundation(gs, fi))

ClickExcuseSlot == Apply(clickExcuseSlot(gs))

MergeTrumps == Apply(mergeTrumps(gs))

AutoPlace == \E ci \in ColumnIndices : Apply(autoPlace(gs, ci))

ClickBackground ==
  /\ gs.selected # NoSel
  /\ Apply(clickBackground(gs))

LastMoveTimer ==
  /\ gs.lastMove # NoMove
  /\ gs' = clearLastMove(gs)
  /\ UNCHANGED <<variant, scale>>

\* what a drag can pick up: a face-up card of a column with the cards above
\* it, or the Excuse resting in its slot
DragSources(s) ==
  {ColSel(ci, cardIdx) : ci \in ColumnIndices, cardIdx \in 0..(MaxDeck - 1)}
    \cup {ExcuseSel}

canDrag(s, from) ==
  IF from.from = "excuse" THEN s.excuseSlot # NoCard
  ELSE isFaceUpAt(s.columns[from.index + 1], from.cardIndex)

\* handleDragStart ignores the pointer once the game is over
DropOnTarget ==
  /\ variant = "strict"
  /\ ~gs.gameOver
  /\ \E from \in DragSources(gs) :
       /\ canDrag(gs, from)
       /\ \/ \E ci \in ColumnIndices : Apply(dropOnColumn(gs, from, ci))
          \/ \E fi \in FoundationIndices :
               Apply(dropOnFoundation(gs, from, fi))
          \/ Apply(dropOnExcuse(gs, from))

Next ==
  \/ Restart
  \/ Distribute
  \/ ClickCard
  \/ ClickColumn
  \/ ClickFoundation
  \/ ClickExcuseSlot
  \/ MergeTrumps
  \/ AutoPlace
  \/ ClickBackground
  \/ LastMoveTimer
  \/ DropOnTarget

Spec == Init /\ [][Next]_vars

(***************************************************************************)
(* Properties                                                              *)
(***************************************************************************)
\* every card held by the board: columns, foundations, Excuse slot, stock
allCards(s) ==
  Flatten(s.columns) \o Flatten(s.foundations)
    \o (IF s.excuseSlot # NoCard THEN <<s.excuseSlot>> ELSE <<>>) \o s.stock

cardIds(cards) == {cards[i].id : i \in 1..Len(cards)}

\* the fields that the rules of the game are about (all but selected and lastMove)
board(s) ==
  <<s.columns, s.foundations, s.excuseSlot, s.stock, s.moves, s.trumpsMerged, s.gameOver>>

\* the selection is a run of a column headed by the Excuse, with cards above it
ExcuseRunSelected(s) ==
  /\ s.selected.from = "col"
  /\ isSubSeq(s)
  /\ getSelectedCard(s).kind = "excuse"

\* the positions of column ci
CardIndices(s, ci) == 0..(Len(s.columns[ci + 1]) - 1)

\* what the click handlers other than restart return for s, over every input
ClickResults(v, s) ==
  {distribute(v, s), clickExcuseSlot(s), mergeTrumps(s)}
    \cup UNION {{clickCard(v, s, ci, cardIdx) : cardIdx \in CardIndices(s, ci)}
                  : ci \in ColumnIndices}
    \cup {clickColumn(v, s, ci) : ci \in ColumnIndices}
    \cup {clickFoundation(s, fi) : fi \in FoundationIndices}
    \cup {autoPlace(s, ci) : ci \in ColumnIndices}

\* what dropOnTarget returns for s, over every dragged source and every target
DropResults(s) ==
  UNION {{dropOnColumn(s, from, ci) : ci \in ColumnIndices}
           \cup {dropOnFoundation(s, from, fi) : fi \in FoundationIndices}
           \cup {dropOnExcuse(s, from)}
         : from \in DragSources(s)}

OperationResults(v, s) ==
  ClickResults(v, s) \cup (IF v = "strict" THEN DropResults(s) ELSE {})

\* C1: in every reachable state the columns, the foundations, the Excuse slot
\* and the stock hold together exactly the cards of the deck, each id once.
C1_CardConservation ==
  /\ Len(allCards(gs)) = Len(createDeck)
  /\ cardIds(allCards(gs)) = cardIds(createDeck)

\* C2: whenever the state satisfies isWin, gameOver is true.
C2_WinSetsGameOver == isWin(gs) => gs.gameOver

\* C3: once gameOver is true, every operation other than restart, on every
\* input, the drops of the strict variant included, returns a state with the
\* same columns, foundations, Excuse slot, stock, moves, trumpsMerged and
\* gameOver.
C3_WonIsAbsorbing ==
  gs.gameOver => \A new \in OperationResults(variant, gs) : board(new) = board(gs)

\* C3 witness: a won game of the strict variant with a selection left over,
\* which a drop clears without touching the board.
C3_Witness ==
  /\ gs.gameOver
  /\ variant = "strict"
  /\ gs.selected # NoSel
  /\ \E new \in DropResults(gs) : new # gs

\* C4: the Excuse slot does not take a run headed by the Excuse with cards
\* above it, and a store accepted by clickExcuseSlot, or by a drop on the slot
\* in the strict variant, takes exactly one card from the columns.
C4_SlotTakesSingleCard ==
  LET stores == {clickExcuseSlot(gs)}
                  \cup (IF variant = "strict"
                        THEN {dropOnExcuse(gs, from) :
                                from \in {f \in DragSources(gs) : canDrag(gs, f)}}
                        ELSE {})
  IN  /\ ExcuseRunSelected(gs) => board(clickExcuseSlot(gs)) = board(gs)
      /\ \A new \in stores :
           new.moves = gs.moves + 1 => SumLen(new.columns) = SumLen(gs.columns) - 1

\* C5 as stated: in every column at most the topmost card is face-up.
C5_OnlyTopFaceUp ==
  \A ci \in ColumnIndices :
    \A i \in 1..(Len(gs.columns[ci + 1]) - 1) : ~gs.columns[ci + 1][i].faceUp

\* C5: in every column the face-up cards are the topmost ones (no face-down
\* card lies above a face-up one), and the top card of a column that is not
\* empty is face-up.
C5_FaceUpCardsOnTop ==
  \A ci \in ColumnIndices :
    LET col == gs.columns[ci + 1]
    IN  /\ Len(col) > 0 => Last(col).faceUp
        /\ \A i \in 1..(Len(col) - 1) : col[i].faceUp => col[i + 1].faceUp

\* C5 witness: after a distribution a column holds a face-down card under
\* two face-up ones.
C5_Witness ==
  /\ gs.lastMove.type = "distribute"
  /\ \E ci \in ColumnIndices :
       LET col == gs.columns[ci + 1]
       IN  \E i \in 1..(Len(col) - 2) :
             ~col[i].faceUp /\ col[i + 1].faceUp /\ col[i + 2].faceUp

\* the column ci does not take the selected run
columnRejects(v, s, ci) ==
  LET card == getSelectedCard(s)
  IN  card = NoCard \/ ~placeOnColumn(v, card, s.columns[ci + 1])

\* the foundation fi does not take the selection
foundationRejects(s, fi) ==
  LET card == getSelectedCard(s)
  IN  \/ card = NoCard
      \/ isSubSeq(s)
      \/ ~canPlaceOnFoundation(card, fi, s.foundations, s.trumpsMerged)

\* the Excuse slot does not take the selection: it is the slot's own card, or
\* it is not the Excuse, or the slot is occupied
slotRejects(s) ==
  LET card == getSelectedCard(s)
  IN  s.selected.from = "excuse" \/ card = NoCard \/ card.kind # "excuse"
        \/ s.excuseSlot # NoCard

\* the clicks on a card of another column that does not take the selected run
RejectingCards(v, s) ==
  {p \in ColumnIndices \X (0..(MaxDeck - 1)) :
     /\ p[2] \in CardIndices(s, p[1])
     /\ s.selected.from = "excuse" \/ s.selected.index # p[1]
     /\ columnRejects(v, s, p[1])}

\* what clickColumn (on an empty column), clickFoundation and clickExcuseSlot
\* return when their target does not take the selection
RejectedByPile(v, s) ==
  {clickColumn(v, s, ci) :
     ci \in {c \in ColumnIndices : Len(s.columns[c + 1]) = 0 /\ columnRejects(v, s, c)}}
    \cup {clickFoundation(s, fi) : fi \in {f \in FoundationIndices : foundationRejects(s, f)}}
    \cup (IF slotRejects(s) THEN {clickExcuseSlot(s)} ELSE {})

\* C6 as stated: with an active selection, a click on a target that does not
\* take the selected run returns a state with no selection and the same board.
C6_RejectionDeselects ==
  gs.selected # NoSel =>
    \A new \in RejectedByPile(variant, gs)
                 \cup {clickCard(variant, gs, p[1], p[2]) : p \in RejectingCards(variant, gs)} :
      new.selected = NoSel /\ board(new) = board(gs)

\* C6: while the game is not over and a selection is active, a click on a
\* target that does not take the selected run returns a state with the same
\* board; the selection is cleared, except that clickCard on a face-up card of
\* another column selects that card instead.
C6_RejectionKeepsBoard ==
  (gs.selected # NoSel /\ ~gs.gameOver) =>
    /\ \A new \in RejectedByPile(variant, gs) :
         new.selected = NoSel /\ board(new) = board(gs)
    /\ \A p \in RejectingCards(variant, gs) :
         LET new == clickCard(variant, gs, p[1], p[2])
         IN  /\ board(new) = board(gs)
             /\ new.selected = IF isFaceUpAt(gs.columns[p[1] + 1], p[2])
                               THEN ColSel(p[1], p[2]) ELSE NoSel

\* C6 witness: a selection that a foundation refuses, and that a face-up card
\* of another column refuses and takes over.
C6_Witness ==
  /\ gs.selected # NoSel
  /\ ~gs.gameOver
  /\ \E fi \in FoundationIndices : foundationRejects(gs, fi)
  /\ \E p \in RejectingCards(variant, gs) : isFaceUpAt(gs.columns[p[1] + 1], p[2])

\* the pile holds, bottom to top, the cards card(1), card(2), ... and at most
\* max of them
isRun(pile, card(_), max) ==
  /\ Len(pile) <= max
  /\ \A j \in 1..Len(pile) : pile[j].id = card(j).id

\* C7: each foundation i in 0..3 holds, bottom to top, the values 1, 2, ..., n
\* of the suit SUITS[i], for some n up to the King, and no other card.
C7_SuitFoundations ==
  \A i \in 0..3 :
    LET ofSuit(j) == SuitCard(SUITS[i + 1], j)
    IN  isRun(gs.foundations[i + 1], ofSuit, KingValue)

\* C7 witness: a suit foundation holds the ace and the 2 of its suit.
C7_Witness == \E i \in 0..3 : Len(gs.foundations[i + 1]) >= 2

\* C8: foundation 4 holds, bottom to top, the trumps 1, 2, ..., n and
\* foundation 5 the trumps 21, 20, ..., 21 - m + 1, before and after a merge.
C8_TrumpFoundations ==
  LET descending(j) == TrumpCard(TopTrump - j + 1)
  IN  /\ isRun(gs.foundations[5], TrumpCard, TopTrump)
      /\ isRun(gs.foundations[6], descending, TopTrump)

\* C8 witness: before a merge the descending pile holds two trumps and the
\* ascending pile one.
C8_Witness ==
  /\ ~gs.trumpsMerged
  /\ Len(gs.foundations[5]) >= 1
  /\ Len(gs.foundations[6]) >= 2

\* C9: canMergeTrumps holds iff the piles are not merged, foundations 4 and 5
\* are not empty and top(4).value + 1 = top(5).value; an accepted mergeTrumps
\* leaves len(4) + len(5) cards on foundation 4, foundation 5 empty and
\* trumpsMerged true; mergeTrumps returns the state it was given when
\* canMergeTrumps is false, and so when it is invoked again.
C9_MergeProtocol ==
  LET asc == gs.foundations[5]
      desc == gs.foundations[6]
      new == mergeTrumps(gs)
  IN  /\ canMergeTrumps(gs) <=>
           (/\ ~gs.trumpsMerged
            /\ asc # <<>>
            /\ desc # <<>>
            /\ Last(asc).value + 1 = Last(desc).value)
      /\ new # gs =>
           /\ Len(new.foundations[5]) = Len(asc) + Len(desc)
           /\ new.foundations[6] = <<>>
           /\ new.trumpsMerged
      /\ ~canMergeTrumps(gs) => new = gs
      /\ mergeTrumps(new) = new

\* C9 witness: a merge has just been accepted.
C9_Witness ==
  /\ gs.trumpsMerged
  /\ gs.lastMove = [type |-> "fdn", index |-> 4]
  /\ Len(gs.foundations[5]) = TopTrump

\* C10: an accepted mergeTrumps leaves on foundation 4 exactly the trumps
\* 1, 2, ..., 21 bottom to top, and canMergeTrumps holds only when all the
\* trumps are on foundations 4 and 5.
C10_MergeYieldsFullRun ==
  LET new == mergeTrumps(gs)
  IN  /\ new # gs =>
           /\ Len(new.foundations[5]) = TopTrump
           /\ \A j \in 1..TopTrump : new.foundations[5][j].id = TrumpCard(j).id
      /\ canMergeTrumps(gs) =>
           Len(gs.foundations[5]) + Len(gs.foundations[6]) = TopTrump

\* C10 witness: a merge is about to be accepted that turns over a descending
\* pile of two trumps or more.
C10_Witness ==
  /\ mergeTrumps(gs) # gs
  /\ Len(gs.foundations[6]) >= 2

\* what every operation other than restart returns for s: the handlers, the
\* click on the background and the timer of lastMove
StepResults(v, s) ==
  OperationResults(v, s) \cup {clickBackground(s), clearLastMove(s)}

\* C11: once trumpsMerged is true, foundation 5 is empty and foundation 4 holds
\* the full run of trumps; every operation other than restart keeps
\* trumpsMerged true and both piles as they are, and neither foundation 4 nor
\* foundation 5 accepts a trump.
C11_MergedRunIsSealed ==
  gs.trumpsMerged =>
    /\ gs.foundations[6] = <<>>
    /\ Len(gs.foundations[5]) = TopTrump
    /\ \A new \in StepResults(variant, gs) :
         /\ new.trumpsMerged
         /\ new.foundations[5] = gs.foundations[5]
         /\ new.foundations[6] = gs.foundations[6]
    /\ \A v \in 1..TopTrump : \A fi \in {4, 5} :
         ~canPlaceOnFoundation(TrumpCard(v), fi, gs.foundations, gs.trumpsMerged)

\* C11 witness: the piles are merged, the game goes on and a move is accepted.
C11_Witness ==
  /\ gs.trumpsMerged
  /\ ~gs.gameOver
  /\ \E new \in StepResults(variant, gs) : new.moves = gs.moves + 1

\* pile a is the bottom of pile b
isPrefix(a, b) == Len(a) <= Len(b) /\ SubSeq(b, 1, Len(a)) = a

\* C12 as stated: for every operation and every foundation, the pile before
\* the operation is a prefix of the pile after it.
C12_FoundationsAppendOnly ==
  \A new \in StepResults(variant, gs) :
    \A fi \in FoundationIndices : isPrefix(gs.foundations[fi + 1], new.foundations[fi + 1])

\* C12: in every step other than a restart (the only step that lowers moves),
\* each of the foundations 0..4 before the step is a prefix of the pile after
\* it; so is foundation 5, except in an accepted mergeTrumps, which empties it
\* and puts its cards, top first, on foundation 4.
C12_FoundationCardsStay ==
  [][gs'.moves >= gs.moves =>
       /\ \A fi \in 0..4 : isPrefix(gs.foundations[fi + 1], gs'.foundations[fi + 1])
       /\ \/ isPrefix(gs.foundations[6], gs'.foundations[6])
          \/ /\ gs' = mergeTrumps(gs)
             /\ gs'.foundations[6] = <<>>
             /\ gs'.foundations[5] = gs.foundations[5] \o Reverse(gs.foundations[6])]_vars

\* C12 witness: a merge is about to be accepted, and so is the move of a card
\* onto a suit foundation.
C12_Witness ==
  /\ mergeTrumps(gs) # gs
  /\ \E new \in StepResults(variant, gs) : \E fi \in 0..3 :
       Len(new.foundations[fi + 1]) = Len(gs.foundations[fi + 1]) + 1

\* a game is at its start: nothing moved, selected or distributed
AtStart == gs.moves = 0 /\ gs.selected = NoSel /\ gs.lastMove = NoMove

\* the cards on top of the columns: those that a click or a drop may offer alone
TopCards(s) == {Last(s.columns[ci + 1]) : ci \in {c \in ColumnIndices : s.columns[c + 1] # <<>>}}

RECURSIVE SumSeq(_)
SumSeq(ns) == IF ns = <<>> THEN 0 ELSE Head(ns) + SumSeq(Tail(ns))

\* C13: for every shuffle of the deck, newGameState deals columns of the sizes
\* of COL_SIZES from the first cards of the shuffled deck in order, with only
\* the last card of each column face-up, leaves the other cards as the stock,
\* all face-down, and starts with six empty foundations, an empty Excuse slot,
\* no selection, moves = 0, gameOver = false and trumpsMerged = false.
C13_InitialDeal ==
  AtStart => \A seed \in Seeds :
    LET s == newGameState(seed)
        deck == shuffle(createDeck, seed)
        dealt == Flatten(s.columns) \o s.stock
    IN  /\ Len(deck) = Len(createDeck)
        /\ cardIds(deck) = cardIds(createDeck)
        /\ [k \in 1..Len(s.columns) |-> Len(s.columns[k])] = COL_SIZES
        /\ Len(dealt) = Len(deck)
        /\ \A i \in 1..Len(deck) : dealt[i].id = deck[i].id
        /\ \A k \in 1..Len(s.columns) : \A i \in 1..Len(s.columns[k]) :
             s.columns[k][i].faceUp <=> (i = Len(s.columns[k]))
        /\ Len(s.stock) = Len(createDeck) - SumSeq(COL_SIZES)
        /\ \A i \in 1..Len(s.stock) : ~s.stock[i].faceUp
        /\ s.foundations = <<<<>>, <<>>, <<>>, <<>>, <<>>, <<>>>>
        /\ s.excuseSlot = NoCard
        /\ s.selected = NoSel
        /\ s.moves = 0
        /\ ~s.gameOver
        /\ ~s.trumpsMerged

\* C13 witness: a fresh deal with a face-down card in a column and a stock.
C13_Witness ==
  /\ \E seed \in Seeds : gs = newGameState(seed)
  /\ gs.stock # <<>>
  /\ \E ci \in ColumnIndices : Len(gs.columns[ci + 1]) >= 2

\* the columns that distribute may serve: all of them in the permissive
\* variant, those whose top is not a face-up King in the strict variant
EligibleSet(v, s) ==
  {ci \in ColumnIndices :
     LET col == s.columns[ci + 1]
     IN  \/ v = "permissive"
         \/ col = <<>>
         \/ ~(Last(col).faceUp /\ Last(col).kind = "suit" /\ Last(col).value = KingValue)}

\* C14: when the game is not over and the stock is not empty, distribute takes
\* min(|stock|, E) cards from the top of the stock and puts one, face-up, on
\* each of the first min(|stock|, E) eligible columns in increasing index; the
\* other columns receive nothing.  With an empty stock it returns the state.
C14_Distribution ==
  LET new == distribute(variant, gs)
      eligible == EligibleSet(variant, gs)
      count == Min(Len(gs.stock), Cardinality(eligible))
      served == {ci \in eligible : Cardinality({c \in eligible : c < ci}) < count}
      taken == SubSeq(gs.stock, Len(gs.stock) - count + 1, Len(gs.stock))
  IN  /\ gs.stock = <<>> => new = gs
      /\ (~gs.gameOver /\ gs.stock # <<>>) =>
           /\ new.stock = SubSeq(gs.stock, 1, Len(gs.stock) - count)
           /\ \A ci \in ColumnIndices \ served : new.columns[ci + 1] = gs.columns[ci + 1]
           /\ \A ci \in served :
                /\ Len(new.columns[ci + 1]) = Len(gs.columns[ci + 1]) + 1
                /\ isPrefix(gs.columns[ci + 1], new.columns[ci + 1])
                /\ Last(new.columns[ci + 1]).faceUp
           /\ {Last(new.columns[ci + 1]).id : ci \in served} = cardIds(taken)
           /\ new.foundations = gs.foundations
           /\ new.excuseSlot = gs.excuseSlot
           /\ new.moves = gs.moves

\* C14 witness: in the strict variant a column shows a King, distinct from the
\* ace, and the stock is about to be distributed.
C14_Witness ==
  /\ variant = "strict"
  /\ KingValue >= 2
  /\ distribute(variant, gs) # gs
  /\ EligibleSet(variant, gs) # ColumnIndices
  /\ EligibleSet(variant, gs) # {}

\* cards of every kind, of the four suits, whatever the scale of the deck
AnyCards ==
  {SuitCard(SUITS[k], v) : k \in 1..4, v \in 1..MaxSuitValue}
    \cup {TrumpCard(v) : v \in 1..MaxTrump} \cup {ExcuseCard}

\* the piles that a rule is tried on: the empty pile and a pile under any card
AnyPiles == {<<>>} \cup {<<c>> : c \in AnyCards}

\* the rule of the foundations as the specification words it
foundationAccepts(card, fi, pile, merged) ==
  IF fi \in 0..3
  THEN /\ card.kind = "suit"
       /\ card.suit = SUITS[fi + 1]
       /\ card.value = IF pile = <<>> THEN 1 ELSE Last(pile).value + 1
  ELSE /\ card.kind = "trump"
       /\ ~merged
       /\ \/ fi = 4 /\ card.value = IF pile = <<>> THEN 1 ELSE Last(pile).value + 1
          \/ fi = 5 /\ card.value = IF pile = <<>> THEN TopTrump ELSE Last(pile).value - 1

\* C15: for every card, index 0..5, pile and merged flag, canPlaceOnFoundation
\* equals the reference rule; the Excuse is accepted by no foundation.  The
\* rule is tried with the top cards of the columns on the piles of the state,
\* and at the start of a game with every card on every pile of AnyPiles.
C15_FoundationRule ==
  /\ \A card \in TopCards(gs) : \A fi \in FoundationIndices : \A merged \in BOOLEAN :
       canPlaceOnFoundation(card, fi, gs.foundations, merged)
         <=> foundationAccepts(card, fi, gs.foundations[fi + 1], merged)
  /\ AtStart =>
       \A card \in AnyCards : \A fi \in FoundationIndices : \A merged \in BOOLEAN :
         \A pile \in AnyPiles :
           canPlaceOnFoundation(card, fi, [f \in 1..6 |-> pile], merged)
             <=> foundationAccepts(card, fi, pile, merged)
  /\ \A fi \in FoundationIndices : \A merged \in BOOLEAN :
       ~canPlaceOnFoundation(ExcuseCard, fi, gs.foundations, merged)

\* C15 witness: a suit foundation and a trump foundation hold cards and the
\* top card of a column is accepted by a foundation.
C15_Witness ==
  /\ \E fi \in 0..3 : gs.foundations[fi + 1] # <<>>
  /\ \E fi \in 4..5 : gs.foundations[fi + 1] # <<>>
  /\ \E ci \in ColumnIndices :
       /\ gs.columns[ci + 1] # <<>>
       /\ findFoundation(Last(gs.columns[ci + 1]), gs.foundations, gs.trumpsMerged) # -1

colour(c) == IF c.suit \in {"hearts", "diamonds"} THEN "red" ELSE "black"

\* the rule of a column that is not empty, as the specification words it
columnAccepts(card, top) ==
  \/ top.kind = "excuse"
  \/ card.kind = "excuse"
  \/ top.kind = "trump" /\ card.kind = "trump" /\ card.value = top.value - 1
  \/ /\ top.kind = "suit"
     /\ card.kind = "suit"
     /\ colour(card) # colour(top)
     /\ card.value = top.value - 1

\* C16: on a column that is not empty, canPlaceOnColumn of either variant
\* accepts every card on the Excuse, the Excuse on every card, a trump of value
\* top.value - 1 on a trump, a suit card of the opposite colour and of value
\* top.value - 1 on a suit card, and nothing else; a click on another column
\* moves the selected run iff its head card is accepted.
C16_ColumnRule ==
  /\ AtStart =>
       \A v \in Variants : \A card \in AnyCards : \A top \in AnyCards :
         placeOnColumn(v, card, <<top>>) <=> columnAccepts(card, top)
  /\ (gs.selected # NoSel /\ ~gs.gameOver /\ getSelectedCard(gs) # NoCard) =>
       \A ci \in ColumnIndices : \A cardIdx \in CardIndices(gs, ci) :
         (gs.selected.from = "excuse" \/ gs.selected.index # ci) =>
           (clickCard(variant, gs, ci, cardIdx).moves = gs.moves + 1
              <=> columnAccepts(getSelectedCard(gs), Last(gs.columns[ci + 1])))

\* C16 witness: a run of two cards or more is selected and its head card is
\* accepted by another column, on a card that is not the Excuse.
C16_Witness ==
  /\ ~gs.gameOver
  /\ isSubSeq(gs)
  /\ getSelectedCard(gs).kind # "excuse"
  /\ \E ci \in ColumnIndices \ {gs.selected.index} :
       /\ gs.columns[ci + 1] # <<>>
       /\ Last(gs.columns[ci + 1]).kind # "excuse"
       /\ clickCard(variant, gs, ci, 0).moves = gs.moves + 1

\* the lowest index whose foundation accepts the card, or -1
lowestAccepting(card, s) ==
  LET accepting == {i \in FoundationIndices :
                      foundationAccepts(card, i, s.foundations[i + 1], s.trumpsMerged)}
  IN  IF accepting = {} THEN -1
      ELSE CHOOSE i \in accepting : \A j \in accepting : i <= j

\* C17: findFoundation returns the lowest index in 0..5 whose foundation
\* accepts the card, or -1; autoPlace moves the top card of the column to that
\* foundation (a trump accepted by foundations 4 and 5 goes to 4), reveals the
\* new top of the column, adds 1 to moves and sets gameOver if the game is won;
\* with no accepting foundation it returns the state.
C17_AutoPlaceLowestIndex ==
  /\ \A card \in TopCards(gs) \cup {ExcuseCard} :
       findFoundation(card, gs.foundations, gs.trumpsMerged) = lowestAccepting(card, gs)
  /\ ~gs.gameOver =>
       \A ci \in ColumnIndices :
         LET col == gs.columns[ci + 1]
             card == Last(col)
             fi == lowestAccepting(card, gs)
             new == autoPlace(gs, ci)
         IN  (col # <<>> /\ card.kind # "excuse") =>
               IF fi = -1 THEN new = gs
               ELSE /\ new.foundations = [gs.foundations EXCEPT ![fi + 1] = Append(@, card)]
                    /\ Len(new.columns[ci + 1]) = Len(col) - 1
                    /\ isPrefix([i \in 1..(Len(col) - 2) |-> col[i]], new.columns[ci + 1])
                    /\ new.columns[ci + 1] # <<>> =>
                         /\ Last(new.columns[ci + 1]).faceUp
                         /\ Last(new.columns[ci + 1]).id = col[Len(col) - 1].id
                    /\ \A cj \in ColumnIndices \ {ci} : new.columns[cj + 1] = gs.columns[cj + 1]
                    /\ new.moves = gs.moves + 1
                    /\ new.gameOver <=> isWin(new)

\* C17 witness: the top card of a column is a trump that the ascending and
\* the descending pile, neither of them empty, both accept.
C17_Witness ==
  /\ ~gs.gameOver
  /\ gs.foundations[5] # <<>>
  /\ gs.foundations[6] # <<>>
  /\ \E ci \in ColumnIndices :
       /\ gs.columns[ci + 1] # <<>>
       /\ canPlaceOnFoundation(Last(gs.columns[ci + 1]), 4, gs.foundations, gs.trumpsMerged)
       /\ canPlaceOnFoundation(Last(gs.columns[ci + 1]), 5, gs.foundations, gs.trumpsMerged)
       /\ autoPlace(gs, ci).foundations[5] = Append(gs.foundations[5], Last(gs.columns[ci + 1]))

\* a pile of n cards
PileOfLen(n) == [i \in 1..n |-> ExcuseCard]

\* the lengths of six piles: suit piles up to MaxSuitValue, trump piles up to MaxTrump
PileLengths ==
  {<<a, b, c, d, e, f>> : a \in 0..MaxSuitValue, b \in 0..MaxSuitValue,
                          c \in 0..MaxSuitValue, d \in 0..MaxSuitValue,
                          e \in 0..MaxTrump, f \in 0..MaxTrump}

\* the number of the three conditions of a win that fail
unmetConditions(fdns, slot) ==
  (IF \A k \in 1..4 : Len(fdns[k]) = SuitSize(SUITS[k]) THEN 0 ELSE 1)
    + (IF Len(fdns[5]) + Len(fdns[6]) = TopTrump THEN 0 ELSE 1)
    + (IF slot # NoCard THEN 0 ELSE 1)

isRunAt(s, from) ==
  /\ from.from = "col"
  /\ from.cardIndex < Len(s.columns[from.index + 1]) - 1

\* C19: when the selection is a run of a column with cardIndex < length - 1,
\* clickFoundation on any index, and in the strict variant the drop of such a
\* run on any foundation, clears the selection and leaves the piles and moves
\* as they are, even if the head card alone would be accepted.
C19_RunNeverOnFoundation ==
  /\ isRunAt(gs, gs.selected) =>
       \A fi \in FoundationIndices :
         LET new == clickFoundation(gs, fi)
         IN  new.selected = NoSel /\ board(new) = board(gs)
  /\ variant = "strict" =>
       \A from \in {f \in DragSources(gs) : isRunAt(gs, f)} : \A fi \in FoundationIndices :
         LET new == dropOnFoundation(gs, from, fi)
         IN  new.selected = NoSel /\ board(new) = board(gs)

\* C19 witness: a run of two cards or more is selected and a foundation would
\* accept its head card alone.
C19_Witness ==
  /\ ~gs.gameOver
  /\ isRunAt(gs, gs.selected)
  /\ findFoundation(getSelectedCard(gs), gs.foundations, gs.trumpsMerged) # -1

\* C20: clickExcuseSlot with a selection in a column is accepted iff the head
\* card of the selection is the Excuse and the Excuse slot is empty; then the
\* slot holds the Excuse face-up, moves increases by 1, the selection is
\* cleared and the new top of the source column, if any, is face-up;
\* otherwise only the selection is cleared.
C20_StoringTheExcuse ==
  gs.selected.from = "col" =>
    LET card == getSelectedCard(gs)
        new == clickExcuseSlot(gs)
        source == new.columns[gs.selected.index + 1]
    IN  IF card.kind = "excuse" /\ gs.excuseSlot = NoCard
        THEN /\ new.excuseSlot.id = ExcuseCard.id
             /\ new.excuseSlot.faceUp
             /\ new.moves = gs.moves + 1
             /\ new.selected = NoSel
             /\ source # <<>> => Last(source).faceUp
        ELSE new = [gs EXCEPT !.selected = NoSel]

\* C20 witness: the Excuse is selected on top of a column, over a face-down
\* card, and the Excuse slot is empty.
C20_Witness ==
  /\ ~gs.gameOver
  /\ gs.selected.from = "col"
  /\ gs.excuseSlot = NoCard
  /\ LET col == gs.columns[gs.selected.index + 1]
     IN  /\ gs.selected.cardIndex = Len(col) - 1
         /\ Len(col) >= 2
         /\ Last(col).kind = "excuse"
         /\ ~col[Len(col) - 1].faceUp

\* C21: clickCard on the head card of the active selection (same column, same
\* cardIndex) returns a state with no selection and with the same columns,
\* foundations, Excuse slot, stock, moves, trumpsMerged and gameOver.
C21_ReclickDeselects ==
  gs.selected.from = "col" =>
    LET new == clickCard(variant, gs, gs.selected.index, gs.selected.cardIndex)
    IN  new.selected = NoSel /\ board(new) = board(gs)

\* C21 witness: a run of two cards or more is selected, on which a click on
\* its head card acts.
C21_Witness ==
  /\ isRunAt(gs, gs.selected)
  /\ clickCard(variant, gs, gs.selected.index, gs.selected.cardIndex) # gs

\* column ci of t is what is left of column ci of s once cards are taken off
\* its top: the same cards in the same order, face-up or not as they were but
\* for the new top card
isUncovered(s, t, ci) ==
  LET old == s.columns[ci + 1]
      new == t.columns[ci + 1]
  IN  /\ Len(new) < Len(old)
      /\ \A i \in 1..Len(new) : new[i].id = old[i].id
      /\ \A i \in 1..(Len(new) - 1) : new[i].faceUp = old[i].faceUp

\* C22: after an accepted operation that takes cards off a column (a column
\* move, a foundation move, a store of the Excuse, autoPlace: the steps that
\* add 1 to moves), the column, if it is not empty, has its new top card
\* face-up and its other cards as they were; in every reachable state the top
\* card of every column that is not empty is face-up.
C22_RevealOnUncover ==
  /\ [](\A ci \in ColumnIndices :
          gs.columns[ci + 1] # <<>> => Last(gs.columns[ci + 1]).faceUp)
  /\ [][gs'.moves = gs.moves + 1 =>
          \A ci \in ColumnIndices :
            Len(gs'.columns[ci + 1]) < Len(gs.columns[ci + 1]) =>
              /\ isUncovered(gs, gs', ci)
              /\ gs'.columns[ci + 1] # <<>> => Last(gs'.columns[ci + 1]).faceUp]_vars

\* C22 witness: a move of the selected card to another column or to a
\* foundation is about to uncover a face-down card.
C22_Witness ==
  /\ ~gs.gameOver
  /\ gs.selected.from = "col"
  /\ gs.selected.cardIndex >= 1
  /\ ~isFaceUpAt(gs.columns[gs.selected.index + 1], gs.selected.cardIndex - 1)
  /\ \E ci \in ColumnIndices \ {gs.selected.index} :
       clickCard(variant, gs, ci, 0).moves = gs.moves + 1
  /\ \E fi \in FoundationIndices : clickFoundation(gs, fi).moves = gs.moves + 1

\* the pile with its top card, if any, face-up
revealed(pile) ==
  [i \in 1..Len(pile) |-> IF i = Len(pile) THEN [pile[i] EXCEPT !.faceUp = TRUE] ELSE pile[i]]

\* the run that from designates: the cards of a column from cardIndex up, or
\* the Excuse in its slot
runOf(s, from) ==
  IF from.from = "excuse" THEN <<s.excuseSlot>>
  ELSE LET col == s.columns[from.index + 1]
       IN  [i \in 1..(Len(col) - from.cardIndex) |-> col[from.cardIndex + i]]

\* what is left of the source column of from under the run, its top revealed
leftUnder(s, from) ==
  LET col == s.columns[from.index + 1]
  IN  revealed([i \in 1..from.cardIndex |-> col[i]])

\* the piles that a column move from the source from to column j leaves alone
restUntouched(s, t, from, j) ==
  /\ \A c \in ColumnIndices :
       (c # j /\ (from.from = "excuse" \/ c # from.index)) => t.columns[c + 1] = s.columns[c + 1]
  /\ t.foundations = s.foundations
  /\ t.stock = s.stock
  /\ t.excuseSlot = IF from.from = "excuse" THEN NoCard ELSE s.excuseSlot

\* t is s after the move of the run of from onto column j, as stated: column j
\* is its content followed by the run, the source column is truncated
movedAsStated(s, t, from, j) ==
  /\ t.columns[j + 1] = s.columns[j + 1] \o runOf(s, from)
  /\ from.from = "col" => t.columns[from.index + 1] = leftUnder(s, from)
  /\ restUntouched(s, t, from, j)

\* the accepted column moves of state s, each with its source and its target:
\* the clicks on a card or on an empty column with the selection of s, and in
\* the strict variant the drops of what can be dragged
AcceptedColumnMoves(v, s) ==
  LET clicks ==
        IF s.selected = NoSel THEN {}
        ELSE UNION {{<<s.selected, ci, clickCard(v, s, ci, cardIdx)>> :
                       cardIdx \in CardIndices(s, ci)} : ci \in ColumnIndices}
               \cup {<<s.selected, ci, clickColumn(v, s, ci)>> : ci \in ColumnIndices}
      drops ==
        IF v = "strict" /\ ~s.gameOver
        THEN {<<from, ci, dropOnColumn(s, from, ci)>> :
                from \in {f \in DragSources(s) : canDrag(s, f)}, ci \in ColumnIndices}
        ELSE {}
  IN  {m \in clicks \cup drops : m[3].moves = s.moves + 1}

\* C23: when a run is accepted on column j, by a click or by a drop, column j
\* is its previous content followed by the run in the same order, the source
\* column is truncated under the run with its new top revealed (or the Excuse
\* slot emptied) and every other column, every foundation and the stock are
\* unchanged.
C23_ColumnMove ==
  \A m \in AcceptedColumnMoves(variant, gs) : movedAsStated(gs, m[3], m[1], m[2])

\* C24: every run that can be selected (a face-up card of a column with the
\* cards above it) is legally stacked: each card above the head satisfies
\* canPlaceOnColumn on the cards beneath it.
C24_RunsAreLegallyStacked ==
  \A ci \in ColumnIndices :
    LET col == gs.columns[ci + 1]
    IN  \A k \in 1..Len(col) : col[k].faceUp =>
          \A i \in (k + 1)..Len(col) :
            placeOnColumn(variant, col[i], SubSeq(col, 1, i - 1))

\* the card is a King: a suit card of the highest value, 14 in the source
isKing(card) == card.kind = "suit" /\ card.value = KingValue

\* what can be dragged in state s
Draggable(s) == {f \in DragSources(s) : canDrag(s, f)}

\* C25: in the strict variant a selected run is accepted on an empty column,
\* by clickColumn or by a drop, iff its head card is a King; the Excuse, the
\* trumps and the lower suit cards are rejected there, and the Excuse is
\* accepted on a column, by a click on a card of another column or by a drop,
\* iff the column is not empty.
C25_StrictEmptyColumn ==
  variant = "strict" =>
    /\ AtStart =>
         /\ \A card \in AnyCards : canPlaceOnColumnStrict(card, <<>>) <=> isKing(card)
         /\ \A pile \in AnyPiles : canPlaceOnColumnStrict(ExcuseCard, pile) <=> pile # <<>>
    /\ (gs.selected # NoSel /\ ~gs.gameOver) =>
         LET head == getSelectedCard(gs)
         IN  \A ci \in ColumnIndices :
               /\ gs.columns[ci + 1] = <<>> =>
                    (clickColumn(variant, gs, ci).moves = gs.moves + 1 <=> isKing(head))
               /\ (head.kind = "excuse" /\ (gs.selected.from = "excuse" \/ gs.selected.index # ci)) =>
                    \A cardIdx \in CardIndices(gs, ci) :
                      clickCard(variant, gs, ci, cardIdx).moves = gs.moves + 1
    /\ ~gs.gameOver =>
         \A from \in Draggable(gs) : \A ci \in ColumnIndices :
           LET head == getSelectedCard([gs EXCEPT !.selected = from])
               accepted == dropOnColumn(gs, from, ci).moves = gs.moves + 1
           IN  /\ gs.columns[ci + 1] = <<>> => (accepted <=> isKing(head))
               /\ head.kind = "excuse" => (accepted <=> gs.columns[ci + 1] # <<>>)

\* C25 witness: in the strict variant, with Kings that are not aces, a column
\* is empty, a King is selected and clickColumn accepts it, and the Excuse can
\* be dragged.
C25_Witness ==
  /\ variant = "strict"
  /\ KingValue >= 2
  /\ ~gs.gameOver
  /\ isKing(getSelectedCard(gs))
  /\ \E ci \in ColumnIndices :
       gs.columns[ci + 1] = <<>> /\ clickColumn(variant, gs, ci).moves = gs.moves + 1
  /\ \E from \in Draggable(gs) : getSelectedCard([gs EXCEPT !.selected = from]).kind = "excuse"

\* the step begins a new game
isRestart(s, t) ==
  /\ t.moves = 0
  /\ t.selected = NoSel
  /\ t.lastMove = NoMove
  /\ \E seed \in Seeds : t = newGameState(seed)

\* what the operations that only select, re-target or deselect return for s,
\* with the rejected operations: clickCard with nothing selected or on the
\* column of the selection, clickExcuseSlot with nothing selected, the click
\* on the background, and the clicks on a target that does not take the
\* selected run
SelectionResults(v, s) ==
  {clickBackground(s)}
    \cup (IF s.selected = NoSel
          THEN {clickExcuseSlot(s)}
                 \cup UNION {{clickCard(v, s, ci, cardIdx) : cardIdx \in CardIndices(s, ci)}
                               : ci \in ColumnIndices}
          ELSE RejectedByPile(v, s)
                 \cup {clickCard(v, s, p[1], p[2]) : p \in RejectingCards(v, s)}
                 \cup (IF s.selected.from = "col"
                       THEN {clickCard(v, s, s.selected.index, cardIdx) :
                               cardIdx \in CardIndices(s, s.selected.index)}
                       ELSE {}))

\* C26: moves is unchanged by selecting, re-targeting, deselecting, every
\* rejected operation, distribute and the timer of lastMove.  In every step of
\* a game (every step but a restart) moves stays or increases by exactly 1 and
\* never decreases; it increases on every step that changes a column, a
\* foundation or the Excuse slot without dealing from the stock (the accepted
\* column moves, foundation moves, stores of the Excuse, autoPlace) and on
\* every merge, and only on a step that records an accepted move in lastMove.
C26_MoveCounter ==
  /\ [](/\ \A new \in SelectionResults(variant, gs) : new.moves = gs.moves
        /\ distribute(variant, gs).moves = gs.moves
        /\ clearLastMove(gs).moves = gs.moves)
  /\ [][\/ /\ gs'.moves \in {gs.moves, gs.moves + 1}
           /\ (piles(gs') # piles(gs) /\ gs'.stock = gs.stock) => gs'.moves = gs.moves + 1
           /\ gs'.trumpsMerged # gs.trumpsMerged => gs'.moves = gs.moves + 1
           /\ gs'.moves = gs.moves + 1 =>
                /\ gs'.lastMove.type \in {"col", "fdn", "excuse"}
                /\ gs'.stock = gs.stock
           /\ gs'.stock # gs.stock => gs'.moves = gs.moves
           /\ gs'.lastMove.type \in {"null", "distribute"} => gs'.moves = gs.moves
        \/ isRestart(gs, gs')]_vars

\* C26 witness: the stock has been distributed after two moves or more, which
\* are still counted.
C26_Witness ==
  /\ gs.moves >= 2
  /\ gs.lastMove.type = "distribute"

\* two states that differ in lastMove at most
sameButLastMove(a, b) == [a EXCEPT !.lastMove = NoMove] = [b EXCEPT !.lastMove = NoMove]

\* every operation returns for s and for s after the timer of lastMove states
\* that differ in lastMove at most
timerCommutes(v, s) ==
  LET c == clearLastMove(s)
  IN  /\ sameButLastMove(distribute(v, c), distribute(v, s))
      /\ sameButLastMove(clickExcuseSlot(c), clickExcuseSlot(s))
      /\ sameButLastMove(mergeTrumps(c), mergeTrumps(s))
      /\ sameButLastMove(clickBackground(c), clickBackground(s))
      /\ \A ci \in ColumnIndices :
           /\ sameButLastMove(clickColumn(v, c, ci), clickColumn(v, s, ci))
           /\ sameButLastMove(autoPlace(c, ci), autoPlace(s, ci))
           /\ \A cardIdx \in CardIndices(s, ci) :
                sameButLastMove(clickCard(v, c, ci, cardIdx), clickCard(v, s, ci, cardIdx))
      /\ \A fi \in FoundationIndices :
           sameButLastMove(clickFoundation(c, fi), clickFoundation(s, fi))
      /\ v = "strict" =>
           /\ Draggable(c) = Draggable(s)
           /\ \A from \in Draggable(s) :
                /\ sameButLastMove(dropOnExcuse(c, from), dropOnExcuse(s, from))
                /\ \A ci \in ColumnIndices :
                     sameButLastMove(dropOnColumn(c, from, ci), dropOnColumn(s, from, ci))
                /\ \A fi \in FoundationIndices :
                     sameButLastMove(dropOnFoundation(c, from, fi), dropOnFoundation(s, from, fi))

\* C27: the callback of the timer changes lastMove only, and every operation
\* on every input returns the same columns, foundations, Excuse slot, stock,
\* selection, moves, trumpsMerged and gameOver whether the timer has fired
\* before it or not; so a sequence of operations ends in the same state but
\* for lastMove wherever the timer fires in it.
C27_TimerIsCosmetic ==
  gs.lastMove # NoMove =>
    /\ clearLastMove(gs) = [gs EXCEPT !.lastMove = NoMove]
    /\ sameButLastMove(clearLastMove(gs), gs)
    /\ timerCommutes(variant, gs)

\* C27 witness: the timer of an accepted move is pending while the game goes
\* on, the stock can be distributed and a card can be auto-placed.
C27_Witness ==
  /\ gs.lastMove.type \in {"col", "fdn", "excuse"}
  /\ ~gs.gameOver
  /\ distribute(variant, gs) # gs
  /\ \E ci \in ColumnIndices : autoPlace(gs, ci).moves = gs.moves + 1

\* C28: with no selection, clickCard on a face-up card at position k of
\* column i selects {column i, cardIndex k} and clickCard on a face-down card
\* returns the state unchanged; with a selection in column i, clickCard on
\* another face-up card of column i re-targets the selection to that card and
\* on a face-down card of column i clears it; none of these changes a pile or
\* the move counter.
C28_SelectAndRetarget ==
  /\ gs.selected = NoSel =>
       \A ci \in ColumnIndices : \A k \in CardIndices(gs, ci) :
         LET new == clickCard(variant, gs, ci, k)
         IN  IF gs.columns[ci + 1][k + 1].faceUp
             THEN new.selected = ColSel(ci, k) /\ board(new) = board(gs)
             ELSE new = gs
  /\ gs.selected.from = "col" =>
       LET i == gs.selected.index
       IN  \A k \in CardIndices(gs, i) \ {gs.selected.cardIndex} :
             LET new == clickCard(variant, gs, i, k)
             IN  /\ board(new) = board(gs)
                 /\ new.selected = IF gs.columns[i + 1][k + 1].faceUp
                                   THEN ColSel(i, k) ELSE NoSel

\* C28 witness: a card is selected in a column that holds another face-up
\* card and a face-down card.
C28_Witness ==
  /\ gs.selected.from = "col"
  /\ ~gs.gameOver
  /\ LET col == gs.columns[gs.selected.index + 1]
     IN  /\ \E k \in 1..Len(col) : k # gs.selected.cardIndex + 1 /\ col[k].faceUp
         /\ \E k \in 1..Len(col) : ~col[k].faceUp

\* the Excuse rests in its slot and nothing is selected: clickExcuseSlot
\* selects it, alone, and changes nothing else
slotClickSelects(s) ==
  (s.selected = NoSel /\ s.excuseSlot # NoCard) =>
    LET new == clickExcuseSlot(s)
    IN  /\ new.selected = ExcuseSel
        /\ board(new) = board(s)
        /\ runOf(new, new.selected) = <<s.excuseSlot>>
        /\ s.excuseSlot.kind = "excuse"

\* the Excuse in its slot is selected: a click on a column that accepts the
\* Excuse (any column in the permissive variant, a column that is not empty in
\* the strict one) moves it there, a click on the slot deselects, a click on
\* a foundation is rejected
slotSelectionActs(v, s) ==
  (s.selected = ExcuseSel /\ s.excuseSlot # NoCard) =>
    /\ \A ci \in ColumnIndices :
         LET col == s.columns[ci + 1]
             clicks == {clickCard(v, s, ci, cardIdx) : cardIdx \in CardIndices(s, ci)}
                         \cup (IF col = <<>> THEN {clickColumn(v, s, ci)} ELSE {})
         IN  (v = "permissive" \/ col # <<>>) =>
               \A new \in clicks :
                 /\ new.excuseSlot = NoCard
                 /\ new.columns = [s.columns EXCEPT ![ci + 1] = Append(col, s.excuseSlot)]
                 /\ new.moves = s.moves + 1
                 /\ new.selected = NoSel
                 /\ new.foundations = s.foundations
                 /\ new.stock = s.stock
    /\ LET new == clickExcuseSlot(s)
       IN  new.selected = NoSel /\ board(new) = board(s)
    /\ \A fi \in FoundationIndices :
         LET new == clickFoundation(s, fi)
         IN  new.selected = NoSel /\ board(new) = board(s)

\* C29 as stated: with nothing selected and the slot occupied, clickExcuseSlot
\* selects the Excuse as a singleton; a following clickCard on a column that
\* accepts the Excuse empties the slot, appends the Excuse to the column and
\* adds 1 to moves; a following clickExcuseSlot deselects without change; a
\* following clickFoundation on any index is rejected.
C29_ExcuseLeavesSlotAsStated ==
  slotClickSelects(gs) /\ slotSelectionActs(variant, gs)

\* C29: the same while the game is not over; once the game is won the Excuse
\* rests in its slot and clickExcuseSlot returns the state it was given.
C29_ExcuseLeavesSlot ==
  IF gs.gameOver THEN clickExcuseSlot(gs) = gs
  ELSE slotClickSelects(gs) /\ slotSelectionActs(variant, gs)

\* C29 witness: the Excuse is selected in its slot while the game goes on,
\* with a column of cards to put it on.
C29_Witness ==
  /\ gs.selected = ExcuseSel
  /\ gs.excuseSlot # NoCard
  /\ ~gs.gameOver
  /\ \E ci \in ColumnIndices : gs.columns[ci + 1] # <<>>

\* C30: a won game has no active selection: in every reachable state with
\* gameOver true, selected is null.
C30_WonHasNoSelection == gs.gameOver => gs.selected = NoSel

\* C31: the selection is always valid: a selection {col, index i, cardIndex k}
\* has k < length of column i and designates a face-up card with face-up
\* cards only above it; a selection {excuse} has the Excuse slot occupied.
C31_SelectionIsValid ==
  /\ gs.selected.from = "col" =>
       LET col == gs.columns[gs.selected.index + 1]
           k == gs.selected.cardIndex
       IN  /\ gs.selected.index \in ColumnIndices
           /\ k >= 0
           /\ k < Len(col)
           /\ \A i \in (k + 1)..Len(col) : col[i].faceUp
  /\ gs.selected.from = "excuse" => gs.excuseSlot # NoCard
  /\ gs.selected.from \in {"col", "excuse", "null"}

\* C31 witness: the top card of a column is selected and autoPlace is about
\* to take it off the column.
C31_Witness ==
  /\ gs.selected.from = "col"
  /\ gs.selected.cardIndex = Len(gs.columns[gs.selected.index + 1]) - 1
  /\ autoPlace(gs, gs.selected.index).moves = gs.moves + 1

\* C32: no accepted column move has the column of the selected run as its
\* destination: a click on a card of the column of the selection moves
\* nothing, and in the strict variant a run dragged from column i and dropped
\* on column i leaves the piles and the move counter as they are and reveals
\* no card.
C32_NoSelfMove ==
  /\ gs.selected.from = "col" =>
       \A cardIdx \in CardIndices(gs, gs.selected.index) :
         LET new == clickCard(variant, gs, gs.selected.index, cardIdx)
         IN  new.moves = gs.moves /\ piles(new) = piles(gs)
  /\ (variant = "strict" /\ ~gs.gameOver) =>
       \A from \in {f \in Draggable(gs) : f.from = "col"} :
         LET new == dropOnColumn(gs, from, from.index)
         IN  new.moves = gs.moves /\ piles(new) = piles(gs)

\* the number of Kings of the deck: 4 in the source, fewer than its 11 columns
KingsInDeck == Cardinality({suit \in PlayedSuits : SuitSize(suit) >= 1})

faceUpIds(s) ==
  LET cards == allCards(s)
  IN  {cards[i].id : i \in {j \in 1..Len(cards) : cards[j].faceUp}}

\* C34: the face-down cards of a column are its bottom cards: every card above
\* a face-up card is face-up; and no operation of a game turns a face-up card
\* face-down: a card that is face-up before a step, and still on the board
\* after it, is face-up after it.
C34_FaceDownPrefix ==
  /\ [](\A ci \in ColumnIndices :
          LET col == gs.columns[ci + 1]
          IN  \A i \in 1..Len(col) : \A j \in (i + 1)..Len(col) :
                col[i].faceUp => col[j].faceUp)
  /\ [][\/ piles(gs') = piles(gs)
        \/ isRestart(gs, gs')
        \/ faceUpIds(gs) \cap cardIds(allCards(gs')) \subseteq faceUpIds(gs')]_vars

\* C34 witness: a column move has just put a run on a column that holds a
\* face-down card under two face-up cards or more.
C34_Witness ==
  /\ gs.lastMove.type = "col"
  /\ LET col == gs.columns[gs.lastMove.index + 1]
     IN  \E i \in 1..(Len(col) - 2) :
           ~col[i].faceUp /\ col[i + 1].faceUp /\ col[i + 2].faceUp

\* C35: gameOver is set by a win only: in every reachable state gameOver
\* implies isWin, and once gameOver is true it stays true on every step but a
\* restart.
C35_GameOverOnlyByWin ==
  /\ [](gs.gameOver => isWin(gs))
  /\ [][gs.gameOver => (gs'.gameOver \/ isRestart(gs, gs'))]_vars

\* C35 witness: a game has just been won by a move onto a foundation, and the
\* timer of lastMove can still fire.
C35_Witness ==
  /\ gs.gameOver
  /\ gs.lastMove.type = "fdn"
  /\ clearLastMove(gs) # gs

\* C36: a win is the state with every card placed: in every reachable state
\* isWin holds iff countAllPlaced is the size of the deck (78 in the source),
\* and whenever isWin holds all the columns and the stock are empty.
C36_WinIsAllPlaced ==
  /\ isWin(gs) <=> (countAllPlaced(gs) = Len(createDeck))
  /\ isWin(gs) => /\ \A ci \in ColumnIndices : gs.columns[ci + 1] = <<>>
                  /\ gs.stock = <<>>

\* C36 witness: a won game in which the two piles of trumps were never merged
\* and the Excuse went to its slot
C36_Witness ==
  /\ isWin(gs)
  /\ ~gs.trumpsMerged
  /\ gs.foundations[5] # <<>>
  /\ gs.foundations[6] # <<>>
  /\ countAllPlaced(gs) = Len(createDeck)

\* C37: the Excuse slot only ever holds the Excuse: in every reachable state
\* excuseSlot is null or the card of kind excuse (id "ex") with faceUp true,
\* and the Excuse lies on no foundation.
C37_SlotHoldsExcuseOnly ==
  /\ \/ gs.excuseSlot = NoCard
     \/ /\ gs.excuseSlot.kind = "excuse"
        /\ gs.excuseSlot.id = ExcuseCard.id
        /\ gs.excuseSlot.faceUp
  /\ \A fi \in FoundationIndices :
       \A i \in 1..Len(gs.foundations[fi + 1]) :
         /\ gs.foundations[fi + 1][i].kind # "excuse"
         /\ gs.foundations[fi + 1][i].id # ExcuseCard.id

\* C37 witness: the Excuse has just been stored in its slot while a foundation
\* holds cards and a column is still in play
C37_Witness ==
  /\ gs.excuseSlot # NoCard
  /\ gs.lastMove.type = "excuse"
  /\ \E fi \in FoundationIndices : gs.foundations[fi + 1] # <<>>
  /\ \E ci \in ColumnIndices : gs.columns[ci + 1] # <<>>

\* C38: the two ends of the trumps never cross: in every reachable state with
\* trumpsMerged false, foundations 4 and 5 hold at most all the trumps (21 in
\* the source) and, when both are non-empty, the top of foundation 4 is lower
\* than the top of foundation 5; when all the trumps are on the two piles and
\* both are non-empty, canMergeTrumps holds.
C38_TrumpEndsNeverCross ==
  ~gs.trumpsMerged =>
    LET asc == gs.foundations[5]
        desc == gs.foundations[6]
    IN  /\ Len(asc) + Len(desc) <= TopTrump
        /\ (asc # <<>> /\ desc # <<>>) => Last(asc).value < Last(desc).value
        /\ (Len(asc) + Len(desc) = TopTrump /\ asc # <<>> /\ desc # <<>>)
             => canMergeTrumps(gs)

\* C38 witness: all the trumps lie on the two piles, both non-empty and not yet
\* merged, and the merge is on offer before the game is won
C38_Witness ==
  /\ ~gs.trumpsMerged
  /\ gs.foundations[5] # <<>>
  /\ gs.foundations[6] # <<>>
  /\ Len(gs.foundations[5]) + Len(gs.foundations[6]) = TopTrump
  /\ ~isWin(gs)
  /\ mergeTrumps(gs) # gs

====
